---- MODULE Spec2Model ----
(***************************************************************************)
(* A model of gen_favicon.py: one run of main(), from the page fetch to    *)
(* the icon write, with the pure helpers (score_url, the discovery filter  *)
(* and sort, the selection passes, the path extension, the square          *)
(* transform) computed on strings as the code computes them.               *)
(*                                                                         *)
(* A Python string is a sequence of one-character strings, so that         *)
(* lower(), "in", endswith(), urlparse().path and os.path.splitext() are   *)
(* computed and not assumed.                                               *)
(***************************************************************************)
EXTENDS Integers, Sequences, FiniteSets, TLC

VARIABLES pc, urls, candidates, chosen, picked, idx, data, ext, effects,
          img, square, hi, ico, exit

vars == <<pc, urls, candidates, chosen, picked, idx, data, ext, effects,
          img, square, hi, ico, exit>>

(***************************************************************************)
(* Bounds                                                                  *)
(***************************************************************************)
\* the longest list of references extracted from the page
MaxRefs == 3

(***************************************************************************)
(* Python str operations                                                   *)
(***************************************************************************)
UpperChars == <<"A","B","C","D","E","F","G","H","I","J","K","L","M",
                "N","O","P","Q","R","S","T","U","V","W","X","Y","Z">>
LowerChars == <<"a","b","c","d","e","f","g","h","i","j","k","l","m",
                "n","o","p","q","r","s","t","u","v","w","x","y","z">>

lower_char(c) ==
    IF \E i \in 1..26 : UpperChars[i] = c
    THEN LowerChars[CHOOSE i \in 1..26 : UpperChars[i] = c]
    ELSE c

RECURSIVE lower_upto(_, _)
\* s[:n].lower()
lower_upto(s, n) == IF n = 0 THEN <<>> ELSE Append(lower_upto(s, n - 1), lower_char(s[n]))

\* str.lower()
str_lower(s) == lower_upto(s, Len(s))

\* s.endswith(suffix)
endswith(s, suffix) ==
    /\ Len(suffix) <= Len(s)
    /\ SubSeq(s, Len(s) - Len(suffix) + 1, Len(s)) = suffix

\* s.startswith(prefix, at): prefix occurs in s at position at (1-based)
occurs_at(s, sub, at) ==
    /\ at + Len(sub) - 1 <= Len(s)
    /\ \A k \in 1..Len(sub) : s[at + k - 1] = sub[k]

\* sub in s
contains(s, sub) == \E at \in 1..(Len(s) - Len(sub) + 1) : occurs_at(s, sub, at)

\* s.find(c, from): the first index >= from holding character c, 0 when none
find_char(s, c, from) ==
    IF \E i \in from..Len(s) : s[i] = c
    THEN CHOOSE i \in from..Len(s) : s[i] = c /\ \A j \in from..(i - 1) : s[j] # c
    ELSE 0

\* s.rfind(c): the last index holding character c, 0 when none
rfind_char(s, c) ==
    IF \E i \in 1..Len(s) : s[i] = c
    THEN CHOOSE i \in 1..Len(s) : s[i] = c /\ \A j \in (i + 1)..Len(s) : s[j] # c
    ELSE 0

(***************************************************************************)
(* Module constants of gen_favicon.py                                      *)
(***************************************************************************)
PAGE_URL == "https://www.scouting.org/merit-badges/cybersecurity/"
ASSETS_IMG_DIR == "/workspace/assets/img"
FAVICON_PATH == "/workspace/favicon.ico"
DOWNLOADED_BASENAME == "cybersecurity-badge-source"

EXT_PNG  == <<".","p","n","g">>
EXT_JPG  == <<".","j","p","g">>
EXT_JPEG == <<".","j","p","e","g">>
EXT_WEBP == <<".","w","e","b","p">>
EXT_SVG  == <<".","s","v","g">>
EXT_IMG  == <<".","i","m","g">>

IMG_EXTS == <<EXT_PNG, EXT_JPG, EXT_JPEG, EXT_WEBP, EXT_SVG>>
RASTER_PREF == <<EXT_PNG, EXT_JPG, EXT_JPEG, EXT_WEBP>>

RECURSIVE reversed(_)
\* seq[::-1]
reversed(seq) == IF seq = <<>> THEN <<>> ELSE Append(reversed(Tail(seq)), Head(seq))

\* any(s.endswith(e) for e in exts)
ends_with_any(s, exts) == \E i \in 1..Len(exts) : endswith(s, exts[i])

(***************************************************************************)
(* The references a page may hold                                         *)
(***************************************************************************)
\* where the references of the model live: "https://scouting.org/"
SITE == <<"h","t","t","p","s",":","/","/","s","c","o","u","t","i","n","g",".","o","r","g","/">>

U_CYBER == SITE \o <<"c","y","b","e","r","-","b","a","d","g","e",".","p","n","g">>
U_BADGE == SITE \o <<"b","a","d","g","e",".","w","e","b","p">>
U_PLAIN == SITE \o <<"a","-","2","0","4","8",".","j","p","g">>
U_LOGO  == SITE \o <<"m","e","r","i","t","-","l","o","g","o","-","1","0","2","4",".","P","N","G">>
U_SVG   == SITE \o <<"c","y","b","e","r",".","s","v","g">>
U_QSVG  == SITE \o <<"i","?","f","=","c","y","b","e","r",".","s","v","g">>
U_PARAM == SITE \o <<"x",".","s","v","g",";","v",".","j","p","e","g">>
U_PHP   == SITE \o <<"p",".","p","h","p">>

\* the references a page may hold, as urljoin(base_url, ...) returns them
Refs == {U_CYBER, U_BADGE, U_PLAIN, U_LOGO, U_SVG, U_QSVG, U_PARAM, U_PHP}

(***************************************************************************)
(* score_url                                                               *)
(***************************************************************************)
KW_PREFER == << <<<<"c","y","b","e","r","s","e","c","u","r","i","t","y">>, 12>>,
                <<<<"c","y","b","e","r">>, 10>>,
                <<<<"b","a","d","g","e">>, 8>>,
                <<<<"m","e","r","i","t">>, 6>>,
                <<<<"e","m","b","l","e","m">>, 6>> >>

KW_PENALIZE == << <<<<"f","o","n","d","o">>, -20>>,
                  <<<<"b","l","a","n","c","o">>, -10>>,
                  <<<<"l","i","s","o">>, -8>>,
                  <<<<"b","a","c","k","g","r","o","u","n","d">>, -12>>,
                  <<<<"h","e","r","o">>, -8>>,
                  <<<<"l","o","g","o">>, -15>>,
                  <<<<"d","e","s","k","t","o","p","@","2","x">>, -10>> >>

KW_HOSTING == << <<<<"w","p","-","c","o","n","t","e","n","t">>, 2>>,
                 <<<<"u","p","l","o","a","d","s">>, 2>>,
                 <<<<"c","d","n">>, 2>>,
                 <<<<"s","c","o","u","t","i","n","g",".","o","r","g">>, 1>> >>

SIZE_HINTS == << <<<<"2","0","4","8">>, 2048>>,
                 <<<<"1","5","3","6">>, 1536>>,
                 <<<<"1","0","2","4">>, 1024>>,
                 <<<<"7","6","8">>, 768>>,
                 <<<<"5","1","2">>, 512>>,
                 <<<<"2","5","6">>, 256>>,
                 <<<<"1","2","8">>, 128>> >>

RECURSIVE sum_upto(_, _)
\* sum of f[1..n]
sum_upto(f, n) == IF n = 0 THEN 0 ELSE f[n] + sum_upto(f, n - 1)

\* for kw, pts in table: if kw in l: score += pts
keyword_points(l, table) ==
    sum_upto([i \in 1..Len(table) |-> IF contains(l, table[i][1]) THEN table[i][2] ELSE 0],
             Len(table))

\* a plausible slip: the preference tuple enumerated without the [::-1]
raster_bonus_unreversed(l) ==
    sum_upto([i \in 1..Len(RASTER_PREF) |->
                 IF endswith(l, RASTER_PREF[i]) THEN 10 + i ELSE 0],
             Len(RASTER_PREF))

\* for idx, ext in enumerate(RASTER_PREF[::-1], start=1): if l.endswith(ext): score += 10 + idx
raster_bonus(l) ==
    sum_upto([i \in 1..Len(RASTER_PREF) |->
                 IF endswith(l, reversed(RASTER_PREF)[i]) THEN 10 + i ELSE 0],
             Len(RASTER_PREF))

\* if l.endswith(".svg"): score += 5
svg_bonus(l) == IF endswith(l, EXT_SVG) THEN 5 ELSE 0

\* the two format steps of score_url together
format_bonus(l) == raster_bonus(l) + svg_bonus(l)

\* for sz in [...]: if sz in l: score += int(int(sz) / 128); break
size_bonus(l) ==
    IF \E i \in 1..Len(SIZE_HINTS) : contains(l, SIZE_HINTS[i][1])
    THEN LET first == CHOOSE i \in 1..Len(SIZE_HINTS) :
                          /\ contains(l, SIZE_HINTS[i][1])
                          /\ \A j \in 1..(i - 1) : ~contains(l, SIZE_HINTS[j][1])
         IN  SIZE_HINTS[first][2] \div 128
    ELSE 0

score_url(url) ==
    LET l == str_lower(url)
    IN  keyword_points(l, KW_PREFER) + keyword_points(l, KW_PENALIZE)
          + keyword_points(l, KW_HOSTING) + format_bonus(l) + size_bonus(l)


(***************************************************************************)
(* find_candidate_image_urls: the filter, the de-duplication and the sort  *)
(* applied to the references extracted (and resolved) from the page        *)
(***************************************************************************)
\* any(u.lower().endswith(ext) for ext in IMG_EXTS)
is_image_url(u) == ends_with_any(str_lower(u), IMG_EXTS)

\* is_image_url over the references, computed once
ImageRefs == {u \in Refs : is_image_url(u)}

\* is_image_url(u), read off the table where it has u
passes_filter(u) == IF u \in Refs THEN u \in ImageRefs ELSE is_image_url(u)

\* x in seq
in_seq(seq, x) == \E i \in 1..Len(seq) : seq[i] = x

RECURSIVE uniquify(_, _)
\* the loop "for u in urls", run on urls[1..n]; seen holds exactly the members of dedup
uniquify(refs, n) ==
    IF n = 0 THEN <<>>
    ELSE LET dedup == uniquify(refs, n - 1)
             u == refs[n]
         IN  IF ~passes_filter(u) THEN dedup
             ELSE IF ~in_seq(dedup, u) THEN Append(dedup, u)
             ELSE dedup

\* a plausible slip: sort ascending then reverse, which turns equal keys around
insert_pos_reversing_ties(order, keys, k) ==
    Cardinality({j \in 1..Len(order) : keys[order[j]] > k})

\* where a stable descending sort puts a key: behind every key >= it
insert_pos(order, keys, k) ==
    Cardinality({j \in 1..Len(order) : keys[order[j]] >= k})

RECURSIVE sort_order(_, _)
\* list.sort(key=..., reverse=True) as the order of the indices 1..n (stable)
sort_order(keys, n) ==
    IF n = 0 THEN <<>>
    ELSE LET order == sort_order(keys, n - 1)
             at == insert_pos(order, keys, keys[n])
         IN  SubSeq(order, 1, at) \o <<n>> \o SubSeq(order, at + 1, Len(order))

\* score_url over the references, computed once
ScoreTable == {<<u, score_url(u)>> : u \in Refs}

\* score_url(u), read off the table where it has u
score_of(u) ==
    IF u \in Refs THEN (CHOOSE p \in ScoreTable : p[1] = u)[2] ELSE score_url(u)

RECURSIVE sort_keys(_, _)
\* the keys of dedup[1..n]: list.sort computes each key once
sort_keys(dedup, n) ==
    IF n = 0 THEN <<>> ELSE Append(sort_keys(dedup, n - 1), score_of(dedup[n]))

RECURSIVE permuted(_, _, _)
\* <<seq[order[1]], ..., seq[order[n]]>>
permuted(seq, order, n) ==
    IF n = 0 THEN <<>> ELSE Append(permuted(seq, order, n - 1), seq[order[n]])

\* dedup.sort(key=score_url, reverse=True)
sort_by_score(dedup) ==
    LET keys == sort_keys(dedup, Len(dedup))
        order == sort_order(keys, Len(dedup))
    IN  permuted(dedup, order, Len(dedup))

find_candidate_image_urls(refs) == sort_by_score(uniquify(refs, Len(refs)))

(***************************************************************************)
(* The selection passes of main()                                          *)
(***************************************************************************)
bad_keywords == << <<"f","o","n","d","o">>,
                   <<"b","l","a","n","c","o">>,
                   <<"l","i","s","o">>,
                   <<"b","a","c","k","g","r","o","u","n","d">>,
                   <<"h","e","r","o">>,
                   <<"l","o","g","o">>,
                   <<"s","c","o","u","t","i","n","g","-","a","m","e","r","i","c","a","-","l","o","g","o">> >>

KW_CYBER == <<"c","y","b","e","r">>
KW_BADGE == <<"b","a","d","g","e">>
KW_MERIT == <<"m","e","r","i","t">>

\* any(b in lu for b in bad_keywords)
is_blocked(lu) == \E i \in 1..Len(bad_keywords) : contains(lu, bad_keywords[i])

\* any(lu.endswith(ext) for ext in RASTER_PREF)
is_raster(lu) == ends_with_any(lu, RASTER_PREF)

\* the condition that ends the loop of pass 1, 2, 3 at candidate u
pass_accepts(n, u) ==
    LET lu == str_lower(u)
    IN  /\ ~is_blocked(lu)
        /\ is_raster(lu)
        /\ CASE n = 1 -> contains(lu, KW_CYBER)
             [] n = 2 -> contains(lu, KW_BADGE) \/ contains(lu, KW_MERIT)
             [] OTHER -> TRUE

\* pass_accepts over the references, computed once
AcceptTable == {nu \in (1..3) \X Refs : pass_accepts(nu[1], nu[2])}

\* pass_accepts(n, u), read off the table where it has u
accepts(n, u) == IF u \in Refs THEN <<n, u>> \in AcceptTable ELSE pass_accepts(n, u)

\* the candidate at which the loop of pass n breaks, 0 when it runs to the end
pass_hit(n, cands) ==
    IF \E i \in 1..Len(cands) : accepts(n, cands[i])
    THEN CHOOSE i \in 1..Len(cands) :
             /\ accepts(n, cands[i])
             /\ \A j \in 1..(i - 1) : ~accepts(n, cands[j])
    ELSE 0

\* a plausible slip: the any-raster fallback tried before the badge/merit pass
selection_pass_fallback_first(cands) ==
    IF pass_hit(1, cands) # 0 THEN 1
    ELSE IF pass_hit(3, cands) # 0 THEN 3
    ELSE IF pass_hit(2, cands) # 0 THEN 2
    ELSE 4

\* the pass that sets chosen ("if not chosen" guards every later pass)
selection_pass(cands) ==
    IF pass_hit(1, cands) # 0 THEN 1
    ELSE IF pass_hit(2, cands) # 0 THEN 2
    ELSE IF pass_hit(3, cands) # 0 THEN 3
    ELSE 4

\* chosen after line 180, for a non-empty candidate list
select_image(cands) ==
    LET n == selection_pass(cands)
    IN  IF n = 4 THEN cands[1] ELSE cands[pass_hit(n, cands)]

(***************************************************************************)
(* urlparse(chosen).path and os.path.splitext(...)[1]                      *)
(***************************************************************************)
\* the index at which the first of the characters in stops occurs from "from" on,
\* Len(s) + 1 when none does
first_stop(s, stops, from) ==
    IF \E i \in from..Len(s) : s[i] \in stops
    THEN CHOOSE i \in from..Len(s) : s[i] \in stops /\ \A j \in from..(i - 1) : s[j] \notin stops
    ELSE Len(s) + 1

\* urlparse(url).path for a url with a scheme that takes parameters (http, https):
\* the scheme and //netloc are cut off the front, the fragment, the query and
\* the parameters of the last segment off the end
url_path(url) ==
    LET colon == find_char(url, ":", 1)
        rest1 == SubSeq(url, colon + 1, Len(url))
        rest2 == IF occurs_at(rest1, <<"/","/">>, 1)
                 THEN SubSeq(rest1, first_stop(rest1, {"/", "?", "#"}, 3), Len(rest1))
                 ELSE rest1
        rest3 == SubSeq(rest2, 1, first_stop(rest2, {"#"}, 1) - 1)
        rest4 == SubSeq(rest3, 1, first_stop(rest3, {"?"}, 1) - 1)
        slash == rfind_char(rest4, "/")
    IN  SubSeq(rest4, 1, first_stop(rest4, {";"}, slash + 1) - 1)

\* os.path.splitext(p)[1]: from the last dot of the last component on, unless
\* that dot is one of the component's leading dots
splitext_ext(p) ==
    LET sep == rfind_char(p, "/")
        dot == rfind_char(p, ".")
    IN  IF dot > sep /\ \E k \in (sep + 1)..(dot - 1) : p[k] # "."
        THEN SubSeq(p, dot, Len(p))
        ELSE <<>>

\* ext = os.path.splitext(parsed.path)[1] or ".img"
source_ext(url) ==
    LET e == splitext_ext(url_path(url)) IN IF e = <<>> THEN EXT_IMG ELSE e

\* out_src = os.path.join(ASSETS_IMG_DIR, DOWNLOADED_BASENAME + ext)
out_src(e) == [dir |-> ASSETS_IMG_DIR, base |-> DOWNLOADED_BASENAME, ext |-> e]


(***************************************************************************)
(* to_square_rgba and the icon steps of main()                             *)
(***************************************************************************)
min2(a, b) == IF a < b THEN a ELSE b
max2(a, b) == IF a > b THEN a ELSE b

\* the square image: its side, the crop offsets and the ring width; "from"
\* names the bytes it was decoded from
to_square_rgba(im) ==
    LET side == min2(im.w, im.h)
    IN  [side |-> side,
         left |-> (im.w - side) \div 2,
         top  |-> (im.h - side) \div 2,
         ring |-> max2(1, side \div 32),
         from |-> im.from]

sizes == <<16, 32, 48, 64, 96, 128, 256>>

\* base_side = max(s[0] for s in sizes)
base_side == CHOOSE m \in {sizes[i] : i \in 1..Len(sizes)} :
                 \A i \in 1..Len(sizes) : sizes[i] <= m

\* a plausible slip: the square handed on as it is, never upsampled
high_res_base_no_upsample(sq) == [side |-> sq.side, from |-> sq]

\* hi = square; if square.size[0] < base_side: hi = square.resize((base_side, base_side))
high_res_base(sq) ==
    IF sq.side < base_side
    THEN [side |-> base_side, from |-> sq]
    ELSE [side |-> sq.side, from |-> sq]

\* hi.save(FAVICON_PATH, format="ICO", sizes=sizes): the ICO encoder writes one
\* frame, resized from the image it is given, for every requested size that
\* exceeds neither the image nor 256
ico_save(base, wanted) ==
    [path   |-> FAVICON_PATH,
     frames |-> {[size |-> wanted[i], from |-> base] :
                    i \in {k \in 1..Len(wanted) : wanted[k] <= base.side /\ wanted[k] <= 256}}]

(***************************************************************************)
(* The other inputs of a run                                               *)
(***************************************************************************)
\* what the extraction loops over img, source and a elements may collect
RefLists == UNION {[1..n -> Refs] : n \in 0..MaxRefs}

\* the sizes (w, h) an image may decode to
ImageSizes == {<<100, 400>>, <<255, 256>>, <<256, 256>>, <<400, 300>>}

\* how a GET may end
PageOutcomes == {"ok", "http_error"}
FetchFailures == {"http_error", "request_error"}

NoUrl == <<>>
None == [none |-> TRUE]

Eff(op, arg, st) == [op |-> op, arg |-> arg, st |-> st]

(***************************************************************************)
(* main()                                                                  *)
(***************************************************************************)
Init ==
    /\ pc = "fetch_page"
    /\ urls = <<>>
    /\ candidates = <<>>
    /\ chosen = NoUrl
    /\ picked = NoUrl
    /\ idx = 0
    /\ data = None
    /\ ext = <<>>
    /\ effects = <<>>
    /\ img = None
    /\ square = None
    /\ hi = None
    /\ ico = None
    /\ exit = "running"

\* requests.get(PAGE_URL) raises: the exception leaves main()
FetchPageRaises ==
    /\ pc = "fetch_page"
    /\ effects' = Append(effects, Eff("page_get", PAGE_URL, "request_error"))
    /\ pc' = "failed"
    /\ exit' = "exception"
    /\ UNCHANGED <<urls, candidates, chosen, picked, idx, data, ext, img, square, hi, ico>>

\* requests.get(PAGE_URL).text: the body is taken whatever the status, and the
\* extraction loops of find_candidate_image_urls collect the references in it
FetchPageReturns ==
    /\ pc = "fetch_page"
    /\ \E st \in PageOutcomes, refs \in RefLists :
          /\ effects' = Append(effects, Eff("page_get", PAGE_URL, st))
          /\ urls' = refs
    /\ pc' = "discover"
    /\ UNCHANGED <<candidates, chosen, picked, idx, data, ext, img, square, hi, ico, exit>>

\* a plausible slip: the check for an empty candidate list left out
no_candidates_unchecked(cands) == FALSE

\* not candidates
no_candidates(cands) == Len(cands) = 0

\* candidates = find_candidate_image_urls(...); if not candidates: raise SystemExit
Discover ==
    /\ pc = "discover"
    /\ candidates' = find_candidate_image_urls(urls)
    /\ IF no_candidates(candidates')
       THEN pc' = "failed" /\ exit' = "SystemExit"
       ELSE pc' = "select" /\ exit' = exit
    /\ UNCHANGED <<urls, chosen, picked, idx, data, ext, effects, img, square, hi, ico>>

\* the four passes; candidates[0] of an empty list raises IndexError
Select ==
    /\ pc = "select"
    /\ IF candidates = <<>>
       THEN /\ pc' = "failed"
            /\ exit' = "exception"
            /\ UNCHANGED <<chosen, picked>>
       ELSE /\ chosen' = select_image(candidates)
            /\ picked' = chosen'
            /\ pc' = "download"
            /\ exit' = exit
    /\ UNCHANGED <<urls, candidates, idx, data, ext, effects, img, square, hi, ico>>

\* download_bytes(url) returns r.content
download_ok(next) ==
    /\ effects' = Append(effects, Eff("image_get", chosen, "ok"))
    /\ data' = [of |-> chosen]
    /\ pc' = next
    /\ exit' = exit

\* download_bytes(url) raises, in requests.get or in r.raise_for_status()
download_fails ==
    /\ \E st \in FetchFailures : effects' = Append(effects, Eff("image_get", chosen, st))
    /\ data' = data
    /\ pc' = "failed"
    /\ exit' = "exception"

\* data = download_bytes(chosen)
DownloadChosen ==
    /\ pc = "download"
    /\ download_ok("save") \/ download_fails
    /\ UNCHANGED <<urls, candidates, chosen, picked, idx, ext, img, square, hi, ico>>

\* ext = ...; out_src = ...; f.write(data)
save_source ==
    /\ ext' = source_ext(chosen)
    /\ effects' = Append(effects, Eff("write_source", out_src(ext'), data))

\* "Save original"
SaveSource ==
    /\ pc = "save"
    /\ save_source
    /\ pc' = "svg_check"
    /\ UNCHANGED <<urls, candidates, chosen, picked, idx, data, img, square, hi, ico, exit>>

\* if ext.lower() == ".svg": for u in candidates: ...
SvgCheck ==
    /\ pc = "svg_check"
    /\ IF str_lower(ext) = EXT_SVG
       THEN pc' = "svg_loop" /\ idx' = 1
       ELSE pc' = "open" /\ idx' = idx
    /\ UNCHANGED <<urls, candidates, chosen, picked, data, ext, effects, img, square, hi, ico, exit>>

\* the candidates from position i on that "if any(u.lower().endswith(e) ...)" accepts
rasters_from(cands, i) == {k \in i..Len(cands) : is_raster(str_lower(cands[k]))}

\* "for u in candidates", from position idx up to the next raster candidate,
\* which becomes chosen; the candidates before it are passed over
SvgLoop ==
    /\ pc = "svg_loop"
    /\ IF rasters_from(candidates, idx) = {}
       THEN pc' = "open" /\ idx' = Len(candidates) + 1 /\ chosen' = chosen
       ELSE LET k == CHOOSE k \in rasters_from(candidates, idx) :
                         \A j \in rasters_from(candidates, idx) : k <= j
            IN  pc' = "switch_download" /\ idx' = k /\ chosen' = candidates[k]
    /\ UNCHANGED <<urls, candidates, picked, data, ext, effects, img, square, hi, ico, exit>>

\* data = download_bytes(chosen), in the loop
SwitchDownload ==
    /\ pc = "switch_download"
    /\ download_ok("switch_save") \/ download_fails
    /\ UNCHANGED <<urls, candidates, chosen, picked, idx, ext, img, square, hi, ico>>

\* a plausible slip: no break, the loop goes on to the next candidate
after_switch_continue(i, n) == i + 1

\* break: the loop is left
after_switch(i, n) == n + 1

\* the raster candidate is saved, then break
SwitchSave ==
    /\ pc = "switch_save"
    /\ save_source
    /\ idx' = after_switch(idx, Len(candidates))
    /\ pc' = "svg_loop"
    /\ UNCHANGED <<urls, candidates, chosen, picked, data, img, square, hi, ico, exit>>

\* img = Image.open(io.BytesIO(data)); the bytes may or may not decode
OpenImage ==
    /\ pc = "open"
    /\ \/ \E wh \in ImageSizes :
             /\ img' = [w |-> wh[1], h |-> wh[2], from |-> data]
             /\ effects' = Append(effects, Eff("open", data, "ok"))
             /\ pc' = "square"
             /\ exit' = exit
       \/ /\ img' = img
          /\ effects' = Append(effects, Eff("open", data, "error"))
          /\ pc' = "failed"
          /\ exit' = "SystemExit"
    /\ UNCHANGED <<urls, candidates, chosen, picked, idx, data, ext, square, hi, ico>>

\* square = to_square_rgba(img)
Square ==
    /\ pc = "square"
    /\ square' = to_square_rgba(img)
    /\ effects' = Append(effects, Eff("transform", data, "ok"))
    /\ pc' = "make_base"
    /\ UNCHANGED <<urls, candidates, chosen, picked, idx, data, ext, img, hi, ico, exit>>

\* the high-resolution base
MakeBase ==
    /\ pc = "make_base"
    /\ hi' = high_res_base(square)
    /\ pc' = "save_icon"
    /\ UNCHANGED <<urls, candidates, chosen, picked, idx, data, ext, effects, img, square, ico, exit>>

\* hi.save(FAVICON_PATH, format="ICO", sizes=sizes); main() returns
SaveIcon ==
    /\ pc = "save_icon"
    /\ ico' = ico_save(hi, sizes)
    /\ effects' = Append(effects, Eff("write_icon", FAVICON_PATH, data))
    /\ pc' = "done"
    /\ exit' = "ok"
    /\ UNCHANGED <<urls, candidates, chosen, picked, idx, data, ext, img, square, hi>>

Next ==
    \/ FetchPageRaises
    \/ FetchPageReturns
    \/ Discover
    \/ Select
    \/ DownloadChosen
    \/ SaveSource
    \/ SvgCheck
    \/ SvgLoop
    \/ SwitchDownload
    \/ SwitchSave
    \/ OpenImage
    \/ Square
    \/ MakeBase
    \/ SaveIcon

Spec == Init /\ [][Next]_vars


(***************************************************************************)
(* Vocabulary of the properties, computed once over the references         *)
(***************************************************************************)
\* the references ending, whatever the case, in extension e
EndsIn(e) == {u \in Refs : endswith(str_lower(u), e)}

PngRefs == EndsIn(EXT_PNG)
JpgRefs == EndsIn(EXT_JPG)
JpegRefs == EndsIn(EXT_JPEG)
WebpRefs == EndsIn(EXT_WEBP)
RasterRefs == PngRefs \cup JpgRefs \cup JpegRefs \cup WebpRefs
VectorRefs == EndsIn(EXT_SVG)

\* the references holding word w, whatever the case
Holding(w) == {u \in Refs : contains(str_lower(u), w)}

BlockedRefs == UNION {Holding(bad_keywords[i]) : i \in 1..Len(bad_keywords)}
CyberRefs == Holding(KW_CYBER)
BadgeRefs == Holding(KW_BADGE)
BadgeMeritRefs == Holding(KW_BADGE) \cup Holding(KW_MERIT)

\* the references with neither a query string nor a fragment
PlainRefs == {u \in Refs : \A k \in 1..Len(u) : u[k] \notin {"?", "#"}}

Eligible1 == (RasterRefs \ BlockedRefs) \cap CyberRefs
Eligible2 == (RasterRefs \ BlockedRefs) \cap BadgeMeritRefs
Eligible3 == RasterRefs \ BlockedRefs

\* the positions of the ranked list holding a member of S, and the first of them
Among(S) == {i \in 1..Len(candidates) : candidates[i] \in S}
FirstAmong(S) == candidates[CHOOSE i \in Among(S) : \A j \in Among(S) : i <= j]

\* the positions of the effects of kind op
EffectsOf(op) == {i \in 1..Len(effects) : effects[i].op = op}

\* discovery has run: the page fetch returned and find_candidate_image_urls was applied
Discovered ==
    /\ pc \notin {"fetch_page", "discover"}
    /\ effects # <<>>
    /\ effects[1].st # "request_error"

\* the run is past the vector check, with the bytes it will decode or has decoded
PastSubstitution == pc \in {"open", "square", "make_base", "save_icon", "done"}

(***************************************************************************)
(* C1: the selection returns the first non-blocked raster candidate        *)
(* holding "cyber"; failing that the first non-blocked raster candidate    *)
(* holding "badge" or "merit"; failing that the first non-blocked raster   *)
(* candidate; failing that candidates[0]. With no "cyber" anywhere and a   *)
(* non-blocked raster "badge" candidate, the result is a pass-2 match.     *)
(***************************************************************************)
ExpectedSelection ==
    IF Among(Eligible1) # {} THEN FirstAmong(Eligible1)
    ELSE IF Among(Eligible2) # {} THEN FirstAmong(Eligible2)
    ELSE IF Among(Eligible3) # {} THEN FirstAmong(Eligible3)
    ELSE candidates[1]

C1_SelectionOrder ==
    picked # NoUrl =>
        /\ picked = ExpectedSelection
        /\ (Among(CyberRefs) = {} /\ Among(Eligible3 \cap BadgeRefs) # {}) => picked \in Eligible2

\* a pass-2 match is picked although a candidate only pass 3 accepts is ranked before it
C1_Witness ==
    /\ picked \in Eligible2
    /\ Among(CyberRefs) = {}
    /\ \E i \in Among(Eligible3 \ Eligible2) : \A j \in Among({picked}) : i < j

(***************************************************************************)
(* C2: a fetch that ends in a request error or a non-success status is the *)
(* last thing the run does: the run has failed and nothing follows it.     *)
(***************************************************************************)
C2_FetchFailureIsTerminal ==
    \A i \in EffectsOf("page_get") \cup EffectsOf("image_get") :
        effects[i].st # "ok" => (i = Len(effects) /\ pc = "failed")

(***************************************************************************)
(* C3: when the selected URL ends in ".svg" and the ranked list holds a    *)
(* raster URL, the bytes decoded and last saved are those of the first     *)
(* raster candidate; with no raster candidate they are the vector's.       *)
(***************************************************************************)
LastSourceWrite ==
    effects[CHOOSE i \in EffectsOf("write_source") : \A j \in EffectsOf("write_source") : j <= i]

C3_VectorSubstitution ==
    (PastSubstitution /\ picked \in VectorRefs) =>
        LET src == IF Among(RasterRefs) # {} THEN FirstAmong(RasterRefs) ELSE picked
        IN  /\ data = [of |-> src]
            /\ LastSourceWrite.st = [of |-> src]

(***************************************************************************)
(* C4: a run that completes has written exactly one source-image path and  *)
(* exactly one icon path.                                                  *)
(***************************************************************************)
C4_OneSourceOneIcon ==
    pc = "done" =>
        /\ Cardinality({effects[i].arg : i \in EffectsOf("write_source")}) = 1
        /\ Cardinality({effects[i].arg : i \in EffectsOf("write_icon")}) = 1

(***************************************************************************)
(* C5: the discovered sequence holds each distinct reference ending in     *)
(* .png/.jpg/.jpeg/.webp/.svg exactly once and nothing else, in            *)
(* non-increasing score, equal scores in order of first occurrence.        *)
(***************************************************************************)
FirstAt(seq, x) == CHOOSE i \in 1..Len(seq) : seq[i] = x /\ \A j \in 1..(i - 1) : seq[j] # x

C5_Discovery ==
    Discovered =>
        /\ {candidates[i] : i \in 1..Len(candidates)}
             = {urls[i] : i \in 1..Len(urls)} \cap (RasterRefs \cup VectorRefs)
        /\ \A i, j \in 1..Len(candidates) : i # j => candidates[i] # candidates[j]
        /\ \A i, j \in 1..Len(candidates) :
              i < j =>
                 \/ score_of(candidates[i]) > score_of(candidates[j])
                 \/ /\ score_of(candidates[i]) = score_of(candidates[j])
                    /\ FirstAt(urls, candidates[i]) < FirstAt(urls, candidates[j])

\* two candidates of equal score, and a reference that was dropped
C5_Witness ==
    /\ Discovered
    /\ Len(urls) > Len(candidates)
    /\ \E i, j \in 1..Len(candidates) :
          i < j /\ score_of(candidates[i]) = score_of(candidates[j])

(***************************************************************************)
(* C6: an empty discovery ends the run there: SystemExit, no image GET,    *)
(* no file written, the selection never entered.                           *)
(***************************************************************************)
C6_EmptyDiscoveryIsFatal ==
    (Discovered /\ candidates = <<>>) =>
        /\ pc = "failed"
        /\ exit = "SystemExit"
        /\ picked = NoUrl
        /\ \A i \in 1..Len(effects) : effects[i].op = "page_get"

\* references were extracted, none of them an image
C6_Witness == Discovered /\ candidates = <<>> /\ urls # <<>>

(***************************************************************************)
(* C7: the base handed to the icon writer has side >= 256 (256 when the    *)
(* square is smaller, the square's side otherwise), and the container      *)
(* holds exactly the sizes 16, 32, 48, 64, 96, 128, 256, all from it.      *)
(***************************************************************************)
C7_IconBase ==
    /\ pc \in {"save_icon", "done"} =>
          /\ hi.side >= 256
          /\ hi.from = square
          /\ square.side < 256 => hi.side = 256
          /\ square.side >= 256 => hi.side = square.side
    /\ pc = "done" =>
          /\ {f.size : f \in ico.frames} = {16, 32, 48, 64, 96, 128, 256}
          /\ \A f \in ico.frames : f.from = hi

\* an icon written from a square smaller than 256
C7_Witness == pc = "done" /\ square.side < 256

(***************************************************************************)
(* C8: one page GET, first; then at most two image GETs; then the          *)
(* transform; then the icon write, last, and only after the bytes of the   *)
(* finally chosen image were decoded.                                      *)
(***************************************************************************)
Stage(op) ==
    CASE op = "page_get" -> 1
      [] op = "image_get" -> 2
      [] op = "transform" -> 3
      [] op = "write_icon" -> 4
      [] OTHER -> 0

C8_EffectOrder ==
    /\ pc # "fetch_page" => Cardinality(EffectsOf("page_get")) = 1
    /\ effects # <<>> => effects[1].op = "page_get"
    /\ Cardinality(EffectsOf("image_get")) <= 2
    /\ Cardinality(EffectsOf("transform")) <= 1
    /\ Cardinality(EffectsOf("write_icon")) <= 1
    /\ \A i, j \in 1..Len(effects) :
          (i < j /\ Stage(effects[i].op) # 0 /\ Stage(effects[j].op) # 0)
             => Stage(effects[i].op) <= Stage(effects[j].op)
    /\ \A i \in EffectsOf("write_icon") :
          /\ i = Len(effects)
          /\ EffectsOf("transform") # {}
          /\ \E k \in EffectsOf("open") :
                k < i /\ effects[k].st = "ok" /\ effects[k].arg = [of |-> chosen]
    /\ pc = "done" => EffectsOf("write_icon") # {}

\* a completed run with two image GETs
C8_Witness == pc = "done" /\ Cardinality(EffectsOf("image_get")) = 2

(***************************************************************************)
(* C9: the format bonus of a raster URL lies in 11..14, a .svg URL gets    *)
(* exactly 5 and no raster bonus, no URL gets two format bonuses.          *)
(* As claimed the bonuses follow webp > jpeg > jpg > png; as amended they  *)
(* follow png > jpg > jpeg > webp.                                         *)
(***************************************************************************)
FormatTable == {<<u, raster_bonus(str_lower(u)), svg_bonus(str_lower(u))>> : u \in Refs}
RasterBonusOf(u) == (CHOOSE p \in FormatTable : p[1] = u)[2]
SvgBonusOf(u) == (CHOOSE p \in FormatTable : p[1] = u)[3]

Listed == {urls[i] : i \in 1..Len(urls)}

FormatBonusShape ==
    \A u \in Listed :
        /\ u \in RasterRefs => (RasterBonusOf(u) \in 11..14 /\ SvgBonusOf(u) = 0)
        /\ u \in VectorRefs => (SvgBonusOf(u) = 5 /\ RasterBonusOf(u) = 0)
        /\ u \notin RasterRefs \cup VectorRefs => (RasterBonusOf(u) = 0 /\ SvgBonusOf(u) = 0)

\* every listed URL of A gets a greater bonus than every listed URL of B
Outranks(A, B) ==
    \A u \in Listed \cap A, v \in Listed \cap B : RasterBonusOf(u) > RasterBonusOf(v)

\* C9 as claimed: webp > jpeg > jpg > png
C9_FormatBonusAsClaimed ==
    /\ FormatBonusShape
    /\ Outranks(WebpRefs, JpegRefs)
    /\ Outranks(JpegRefs, JpgRefs)
    /\ Outranks(JpgRefs, PngRefs)

\* C9 as amended: png > jpg > jpeg > webp
C9_FormatBonus ==
    /\ FormatBonusShape
    /\ Outranks(PngRefs, JpgRefs)
    /\ Outranks(JpgRefs, JpegRefs)
    /\ Outranks(JpegRefs, WebpRefs)

\* a page with a .png, a .webp and a .svg reference
C9_Witness ==
    /\ Listed \cap PngRefs # {}
    /\ Listed \cap WebpRefs # {}
    /\ Listed \cap VectorRefs # {}

(***************************************************************************)
(* C10: with no query string or fragment in any candidate, the image       *)
(* finally used holds a blocklist keyword only if no candidate is a        *)
(* non-blocked raster URL, and a substitution happens only after pass 4    *)
(* and puts a blocklisted URL in place.                                    *)
(***************************************************************************)
C10_BlockedOnlyWithoutAlternative ==
    (PastSubstitution /\ Among(PlainRefs) = 1..Len(candidates)) =>
        /\ chosen \in BlockedRefs => Among(Eligible3) = {}
        /\ Cardinality(EffectsOf("image_get")) = 2 =>
              (Among(Eligible3) = {} /\ chosen \in BlockedRefs)

====
